---- MODULE Spec2Model ----
(***************************************************************************)
(* Model of src/backend/main.py: the Flask backend that keeps the OAuth    *)
(* tokens of one user-agent in a server-side session and composes calls to *)
(* the upstream music API.                                                 *)
(*                                                                         *)
(* Spec         the token lifecycle: /callback, /refresh-token, /me,       *)
(*              /history/top-tracks, /history/recent-tracks and the clock. *)
(*              Each request is one atomic step (requests of one session   *)
(*              are served one after the other).                           *)
(* SpecPlaylist one /playlist request, one step per upstream call.         *)
(* SpecRace     two /me requests of one session served by different        *)
(*              threads: each loads the stored record into its own         *)
(*              session object, runs get_access_token on it, and the       *)
(*              record is written back when the request ends.              *)
(***************************************************************************)
EXTENDS Integers, Sequences, FiniteSets, TLC

VARIABLES
    session,    \* flask session: a dict, modelled as a function on the keys present
    now,        \* datetime.now().timestamp()
    op,         \* the handler that served the last request
    status,     \* HTTP status of the last response sent to the caller
    called,     \* whether the last request called get_access_token
    ret,        \* what get_access_token returned in the last request
    calls,      \* upstream calls issued by the last request, in order
    pre,        \* the session as the last request found it
    preNow,     \* the clock when the last request started
    resp,       \* the token endpoint's response in the last request
    pc,         \* position of the /playlist request
    loc,        \* local variables of create_playlist
    lapsed,     \* history: "no"; "now" when the last request was a /me whose
                \* refresh was rejected; "past" once a later request was served
                \* with no accepted code exchange in between
    req         \* SpecRace: the two concurrent requests, each with its own
                \* session object; session is then the stored record

vars == <<session, now, op, status, called, ret, calls, pre, preNow, resp, pc, loc,
          lapsed, req>>

(***************************************************************************)
(* Bounds of the model.                                                    *)
(***************************************************************************)
MaxTime == 3
MaxExpiresIn == 1

(***************************************************************************)
(* Values.                                                                 *)
(***************************************************************************)
None == 0
DefaultExpiresIn == 3600

AccessTokens == {11, 12}
RefreshTokens == {21, 22}

\* python dict helpers
Has(d, k) == k \in DOMAIN d
Get(d, k, default) == IF k \in DOMAIN d THEN d[k] ELSE default
Put(d, k, v) == [x \in DOMAIN d \cup {k} |-> IF x = k THEN v ELSE d[x]]
Pop(d, k) == [x \in DOMAIN d \ {k} |-> d[x]]
EmptyDict == [x \in {} |-> None]

\* status codes the token endpoint may answer with
TokenStatus == {200, 201, 400}

\* JSON bodies the token endpoint may answer with: any subset of the three
\* fields of a token response
TokenBody(a, r, e) ==
    LET v == [access_token |-> a, refresh_token |-> r, expires_in |-> e]
    IN  [k \in {x \in DOMAIN v : v[x] # None} |-> v[k]]

TokenResponses ==
    { [status_code |-> s, json |-> TokenBody(a, r, e)] :
        s \in TokenStatus,
        a \in AccessTokens \cup {None},
        r \in RefreshTokens \cup {None},
        e \in (1..MaxExpiresIn) \cup {None} }

Is2xx(code) == code \in 200..299

NoResponse == [status_code |-> None, json |-> EmptyDict]

\* one upstream call: the endpoint, the artist id in its path (None where the
\* path has none), the credential it carried (the bearer token of an API
\* call, the refresh token or the code of a token call), the JSON payload
\* (only the add-tracks call has one) and the status code of the answer
\* (None where the handler never reads it)
Call(endpoint, grant, cred) ==
    [endpoint |-> endpoint, id |-> None, grant |-> grant, cred |-> cred,
     uris |-> <<>>, status_code |-> None]

Answered(call, code) == [call EXCEPT !.status_code = code]

(***************************************************************************)
(* get_access_token, lines 24-52.  s: the session, t: the clock, r: what   *)
(* the token endpoint answers if it is asked.  raised: a KeyError left the *)
(* function (line 48, the body has no access_token).                       *)
(***************************************************************************)
\* slip: line 31 forgotten, expires_at stays behind
DropStaleAccessOnly(s) == Pop(s, "access_token")

\* lines 30-31
DropStale(s) == Pop(Pop(s, "access_token"), "expires_at")

\* lines 42-44
ClearTokens(s) == Pop(Pop(Pop(s, "access_token"), "expires_at"), "refresh_token")

\* slip: the lifetime stored as it came, not as an absolute time
StoreRefreshedDuration(s, t, r) ==
    Put(Put(s, "access_token", r.json["access_token"]),
        "expires_at", Get(r.json, "expires_in", DefaultExpiresIn))

\* lines 48-49
StoreRefreshed(s, t, r) ==
    Put(Put(s, "access_token", r.json["access_token"]),
        "expires_at", t + Get(r.json, "expires_in", DefaultExpiresIn))

\* line 41
RefreshRejected(r) == r.status_code # 200

\* slip: >= for >, a token is refreshed in the very second it expires
IsExpiredOffByOne(s, t) == t >= Get(s, "expires_at", 0)

\* line 28
IsExpired(s, t) == t > Get(s, "expires_at", 0)

\* slip: a rejected refresh is tried a second time
get_access_token_retry(s, t, r) ==
    LET post == <<Answered(Call("token", "refresh_token", Get(s, "refresh_token", None)),
                           r.status_code)>>
    IN  IF ~Has(s, "access_token")
        THEN [session |-> s, ret |-> None, calls |-> <<>>, raised |-> FALSE]
        ELSE IF ~IsExpired(s, t)
        THEN [session |-> s, ret |-> s["access_token"], calls |-> <<>>, raised |-> FALSE]
        ELSE IF ~Has(s, "refresh_token")
        THEN [session |-> DropStale(s), ret |-> None, calls |-> <<>>, raised |-> FALSE]
        ELSE IF RefreshRejected(r)
        THEN [session |-> ClearTokens(s), ret |-> None,
              calls |-> post \o post, raised |-> FALSE]
        ELSE IF ~Has(r.json, "access_token")
        THEN [session |-> s, ret |-> None, calls |-> post, raised |-> TRUE]
        ELSE [session |-> StoreRefreshed(s, t, r), ret |-> r.json["access_token"],
              calls |-> post, raised |-> FALSE]

get_access_token(s, t, r) ==
    IF ~Has(s, "access_token")
    THEN [session |-> s, ret |-> None, calls |-> <<>>, raised |-> FALSE]
    ELSE IF IsExpired(s, t)
    THEN IF ~Has(s, "refresh_token")
         THEN [session |-> DropStale(s),
               ret |-> None, calls |-> <<>>, raised |-> FALSE]
         ELSE LET post == <<Answered(Call("token", "refresh_token", s["refresh_token"]),
                                     r.status_code)>>
              IN  IF RefreshRejected(r)
                  THEN [session |-> ClearTokens(s), ret |-> None,
                        calls |-> post, raised |-> FALSE]
                  ELSE IF ~Has(r.json, "access_token")
                  THEN [session |-> s, ret |-> None, calls |-> post, raised |-> TRUE]
                  ELSE [session |-> StoreRefreshed(s, t, r),
                        ret |-> r.json["access_token"],
                        calls |-> post, raised |-> FALSE]
    ELSE [session |-> s, ret |-> s["access_token"], calls |-> <<>>, raised |-> FALSE]

(***************************************************************************)
(* Initial state: a fresh user-agent, no session fields, no request yet.   *)
(***************************************************************************)
\* expansion: candidate_tracks as the artist expansion left it (line 213);
\* body: the key of the JSON body /playlist answers with, "error" or
\* "message" ("none" before it answers)
NoLocals ==
    [top_artist_ids |-> <<>>, related_artist_ids |-> <<>>, top_tracks |-> <<>>,
     recent_tracks |-> <<>>, seen_track_ids |-> {}, expansion |-> <<>>,
     candidate_tracks |-> <<>>, unique |-> <<>>, uris |-> <<>>, body |-> "none"]

\* the threads of SpecRace, and a thread that has no request yet
Requests == {1, 2}
NoRequest ==
    [pc |-> "idle", loaded |-> EmptyDict, copy |-> EmptyDict, t |-> None,
     resp |-> NoResponse, ret |-> None, raised |-> FALSE, status |-> None, wrote |-> 0]

InitPlaylistIdle ==
    /\ pc = "idle"
    /\ loc = NoLocals
    /\ req = [i \in Requests |-> NoRequest]

Init ==
    /\ lapsed = "no"
    /\ session = EmptyDict
    /\ now = 1
    /\ op = "none"
    /\ status = None
    /\ called = FALSE
    /\ ret = None
    /\ calls = <<>>
    /\ pre = EmptyDict
    /\ preNow = 1
    /\ resp = NoResponse
    /\ InitPlaylistIdle

\* what every request handler of Spec records about itself; a request is
\* served within one reading of the clock
Served(name, r) ==
    /\ op' = name
    /\ pre' = session
    /\ preNow' = now
    /\ resp' = r
    /\ now' = now
    /\ UNCHANGED <<pc, loc, req>>

\* one more request served since the refresh was rejected, if it was
Later == IF lapsed = "no" THEN "no" ELSE "past"

(***************************************************************************)
(* The clock.                                                              *)
(***************************************************************************)
Tick ==
    /\ now < MaxTime
    /\ now' = now + 1
    /\ UNCHANGED <<session, op, status, called, ret, calls, pre, preNow, resp, pc, loc,
                   lapsed, req>>

(***************************************************************************)
(* /callback, lines 77-101.  A KeyError at line 97 (no expires_in) leaves  *)
(* the handler after line 96 wrote access_token; whether the session is    *)
(* saved then depends on how the app is run (the error response is         *)
(* finalised and the session saved, or the exception propagates).          *)
(***************************************************************************)
CodeGrant == 1

callback ==
    /\ called' = FALSE
    /\ ret' = None
    /\ \E hasCode \in BOOLEAN :
        IF ~hasCode
        THEN /\ Served("callback", NoResponse)
             /\ status' = 400
             /\ calls' = <<>>
             /\ session' = session
             /\ lapsed' = Later
        ELSE \E r \in TokenResponses :
             /\ Served("callback", r)
             \* history only (the handler never reads the status): the exchange
             \* succeeded when the answer is 2xx and carries the token fields
             /\ lapsed' = IF Is2xx(r.status_code) /\ Has(r.json, "access_token")
                                /\ Has(r.json, "expires_in")
                           THEN "no" ELSE Later
             /\ calls' = <<Answered(Call("token", "authorization_code", CodeGrant),
                                    r.status_code)>>
             /\ IF ~Has(r.json, "access_token")
                THEN /\ status' = 400
                     /\ session' = session
                ELSE IF ~Has(r.json, "expires_in")
                THEN /\ status' = 500
                     /\ \E saved \in BOOLEAN :
                          session' = IF saved
                                     THEN Put(session, "access_token", r.json["access_token"])
                                     ELSE session
                ELSE /\ status' = 302
                     /\ session' =
                          LET s1 == Put(session, "access_token", r.json["access_token"])
                              s2 == Put(s1, "expires_at", now + r.json["expires_in"])
                          IN  IF Has(r.json, "refresh_token")
                              THEN Put(s2, "refresh_token", r.json["refresh_token"])
                              ELSE s2

(***************************************************************************)
(* /refresh-token, lines 103-123.                                          *)
(***************************************************************************)
refresh_token ==
    /\ lapsed' = Later
    /\ called' = FALSE
    /\ ret' = None
    /\ IF ~Has(session, "refresh_token")
       THEN /\ Served("refresh_token", NoResponse)
            /\ status' = 401
            /\ calls' = <<>>
            /\ session' = session
       ELSE \E r \in TokenResponses :
            /\ Served("refresh_token", r)
            /\ calls' = <<Answered(Call("token", "refresh_token", session["refresh_token"]),
                                   r.status_code)>>
            /\ IF ~Has(r.json, "access_token")
               THEN /\ status' = 400
                    /\ session' = session
               ELSE /\ status' = 200
                    /\ session' = StoreRefreshed(session, now, r)

(***************************************************************************)
(* /me, lines 125-133.  The token endpoint answers only if it is asked.    *)
(***************************************************************************)
Asks(s, t) == get_access_token(s, t, NoResponse).calls # <<>>

me ==
    \E r \in IF Asks(session, now) THEN TokenResponses ELSE {NoResponse} :
        LET g == get_access_token(session, now, r)
        IN  /\ Served("me", r)
            /\ called' = TRUE
            /\ ret' = g.ret
            /\ session' = g.session
            /\ lapsed' = IF lapsed = "no" /\ g.calls # <<>> /\ ~g.raised /\ g.ret = None
                          THEN "now" ELSE Later
            /\ IF g.raised
               THEN /\ status' = 500
                    /\ calls' = g.calls
               ELSE IF g.ret = None
               THEN /\ status' = 401
                    /\ calls' = g.calls
               ELSE /\ status' = 200
                    /\ calls' = Append(g.calls, Call("/v1/me", "bearer", g.ret))

(***************************************************************************)
(* /history/top-tracks, lines 135-144.                                     *)
(***************************************************************************)
top_tracks ==
    /\ lapsed' = Later
    /\ Served("top_tracks", NoResponse)
    /\ called' = FALSE
    /\ ret' = None
    /\ session' = session
    /\ IF Get(session, "access_token", None) = None
       THEN /\ status' = 401
            /\ calls' = <<>>
       ELSE /\ status' = 200
            /\ calls' = <<Call("/v1/me/top/tracks", "bearer", session["access_token"])>>

(***************************************************************************)
(* /history/recent-tracks, lines 261-289: the upstream call and the status *)
(* answered; the reshaping of the items (lines 277-287) is left out.       *)
(***************************************************************************)
\* status codes the upstream API may answer a read and a write with
ReadStatus == {200, 403}
WriteStatus == {200, 201, 403}

recent_tracks ==
    \E code \in ReadStatus :
        /\ lapsed' = Later
        /\ Served("recent_tracks", NoResponse)
        /\ called' = FALSE
        /\ ret' = None
        /\ session' = session
        /\ IF Get(session, "access_token", None) = None
           THEN /\ status' = 401
                /\ calls' = <<>>
           ELSE /\ status' = IF code # 200 THEN code ELSE 200
                /\ calls' = <<Answered(Call("/v1/me/player/recently-played", "bearer",
                                            session["access_token"]), code)>>

Next ==
    \/ Tick
    \/ callback
    \/ refresh_token
    \/ me
    \/ top_tracks
    \/ recent_tracks

Spec == Init /\ [][Next]_vars

(***************************************************************************)
(* /playlist, lines 163-258.  The handler blocks on one upstream call      *)
(* after the other; pc is the call it is about to issue, and each action   *)
(* is that call together with the code that runs up to the next call.      *)
(***************************************************************************)
MaxTopArtists == 2
PageSize == 10
MaxTracks == 30
RelatedPerArtist == 2
UriBase == 1000

Track(id) == [id |-> id, uri |-> UriBase + id]

Range(a, b) == [k \in 1..(b - a + 1) |-> Track(a + k - 1)]

\* k-th page of an artist's top tracks
Page(k) == Range((k - 1) * PageSize + 1, k * PageSize)

Ids(tracks) == {tracks[k].id : k \in 1..Len(tracks)}

Take(seq, n) == SubSeq(seq, 1, IF Len(seq) < n THEN Len(seq) ELSE n)

\* what the upstream may hold for this user
TopArtistLists == {[k \in 1..n |-> k] : n \in 0..MaxTopArtists}
RelatedLists == {<<101, 102, 103>>, <<102, 104>>}
TopTrackLists == {<<>>, <<Track(1), Track(2), Track(3)>>}
RecentItem(t) == [k \in {"track"} |-> t]
LocalItem == [k \in {"played_at"} |-> 0]
RecentLists ==
    {<<>>,
     <<RecentItem(Track(2)), RecentItem(Track(4))>>,
     <<RecentItem(Track(4)), LocalItem, RecentItem(Track(4)), RecentItem(Track(5))>>}
ArtistTrackLists ==
    {<<Track(2), Track(4)>>, Range(PageSize \div 2 + 1, 2 * PageSize + PageSize \div 2),
     Page(1), Page(4)}

\* slip: line 191 left out, the ids are used as collected
FromKeysKeepAll(xs, acc) == acc \o xs

\* list(dict.fromkeys(xs)), line 191
RECURSIVE FromKeys(_, _)
FromKeys(xs, acc) ==
    IF xs = <<>> THEN acc
    ELSE FromKeys(Tail(xs),
                  IF \E k \in 1..Len(acc) : acc[k] = Head(xs)
                  THEN acc ELSE Append(acc, Head(xs)))

\* slip: recently played tracks merged into the top tracks
SelectCandidatesMerged(candidate_tracks, top, recent) ==
    IF candidate_tracks = <<>> THEN top \o recent ELSE candidate_tracks

\* lines 214-217
SelectCandidates(candidate_tracks, top, recent) ==
    IF candidate_tracks = <<>> /\ top # <<>> THEN top
    ELSE IF candidate_tracks = <<>> /\ recent # <<>> THEN recent
    ELSE candidate_tracks

\* the loop of lines 222-229, from position k on
RECURSIVE UniqueLoop(_, _, _, _)
UniqueLoop(candidate_tracks, k, unique, seen) ==
    IF k > Len(candidate_tracks) THEN unique
    ELSE LET tr == candidate_tracks[k]
             fresh == tr.id \notin seen
             unique2 == IF fresh THEN Append(unique, tr) ELSE unique
             seen2 == IF fresh THEN seen \cup {tr.id} ELSE seen
         IN  IF Len(unique2) >= MaxTracks THEN unique2
             ELSE UniqueLoop(candidate_tracks, k + 1, unique2, seen2)

\* slip: cut to 30 without looking at the ids
UniqueCutOnly(candidate_tracks) == Take(candidate_tracks, MaxTracks)

\* slip: the loop starts at the second candidate
UniqueSkipFirst(candidate_tracks) == UniqueLoop(candidate_tracks, 2, <<>>, {})

\* lines 222-229
Unique(candidate_tracks) == UniqueLoop(candidate_tracks, 1, <<>>, {})

\* line 231
Uris(unique) == [k \in 1..Len(unique) |-> unique[k].uri]

\* slip: the test of line 211 left out
NotSeenKeepAll(tracks, seen_track_ids) == tracks

\* lines 210-212
NotSeen(tracks, seen_track_ids) ==
    SelectSeq(tracks, LAMBDA tr : tr.id \notin seen_track_ids)

\* lines 197: the tracks of the items that have one
RECURSIVE TracksOf(_)
TracksOf(items) ==
    IF items = <<>> THEN <<>>
    ELSE IF Has(Head(items), "track")
         THEN <<Head(items)["track"]>> \o TracksOf(Tail(items))
         ELSE TracksOf(Tail(items))

Bearer == Get(session, "access_token", None)

Issue(endpoint, code) ==
    calls' = Append(calls, Answered(Call(endpoint, "bearer", Bearer), code))

\* a call whose path names an artist
IssueFor(endpoint, id, code) ==
    calls' = Append(calls, [Answered(Call(endpoint, "bearer", Bearer), code)
                            EXCEPT !.id = id])

\* how many rounds of a loop over artists have run: one call each
Asked(endpoint) == Cardinality({k \in 1..Len(calls) : calls[k].endpoint = endpoint})

PlaylistKeeps ==
    UNCHANGED <<session, now, op, called, ret, pre, preNow, resp, lapsed, req>>

\* return jsonify({body: ...}), code
Return(l, body, code) ==
    /\ loc' = [l EXCEPT !.body = body]
    /\ status' = code
    /\ pc' = "done"

\* lines 214-231, after the last read: choose the candidates, and either
\* answer 400 or go on to create the playlist
Selected(l) ==
    LET chosen == SelectCandidates(l.candidate_tracks, l.top_tracks, l.recent_tracks)
    IN  IF chosen = <<>>
        THEN Return([l EXCEPT !.expansion = l.candidate_tracks,
                              !.candidate_tracks = chosen], "error", 400)
        ELSE /\ loc' = [l EXCEPT !.expansion = l.candidate_tracks,
                                 !.candidate_tracks = chosen,
                                 !.unique = Unique(chosen),
                                 !.uris = Uris(Unique(chosen))]
             /\ status' = status
             /\ pc' = "create"

\* lines 165-179
pl_profile ==
    /\ pc = "idle"
    /\ PlaylistKeeps
    /\ IF Bearer = None
       THEN /\ Return(loc, "error", 401)
            /\ calls' = calls
       ELSE \E code \in ReadStatus :
            /\ Issue("/v1/me", code)
            /\ IF code # 200
               THEN Return(loc, "error", code)
               ELSE loc' = loc /\ status' = status /\ pc' = "top_artists"

\* lines 181-185
pl_top_artists ==
    /\ pc = "top_artists"
    /\ PlaylistKeeps
    /\ status' = status
    /\ \E code \in ReadStatus, items \in TopArtistLists :
        LET top_artist_ids == IF code = 200 THEN items ELSE <<>>
        IN  /\ Issue("/v1/me/top/artists", code)
            /\ loc' = [loc EXCEPT !.top_artist_ids = top_artist_ids]
            /\ pc' = IF top_artist_ids = <<>> THEN "top_tracks" ELSE "related"

\* lines 186-191: one round of the loop, for the first artist not asked for
\* yet; line 191 runs after the last
pl_related ==
    /\ pc = "related"
    /\ PlaylistKeeps
    /\ status' = status
    /\ \E code \in ReadStatus, ra \in RelatedLists :
        LET k == Asked("/v1/artists/related-artists") + 1
            aid == loc.top_artist_ids[k]
            last == k = Len(loc.top_artist_ids)
            got == IF code = 200
                   THEN loc.related_artist_ids \o Take(ra, RelatedPerArtist)
                   ELSE loc.related_artist_ids
        IN  /\ IssueFor("/v1/artists/related-artists", aid, code)
            /\ loc' = [loc EXCEPT !.related_artist_ids =
                                      IF last THEN FromKeys(got, <<>>) ELSE got]
            /\ pc' = IF last THEN "top_tracks" ELSE "related"

\* lines 193-194
pl_top_tracks ==
    /\ pc = "top_tracks"
    /\ PlaylistKeeps
    /\ status' = status
    /\ \E code \in ReadStatus, items \in TopTrackLists :
        /\ Issue("/v1/me/top/tracks", code)
        /\ loc' = [loc EXCEPT !.top_tracks = IF code = 200 THEN items ELSE <<>>]
        /\ pc' = "recent"

\* lines 196-202, and lines 214-231 when there is no related artist
pl_recent ==
    /\ pc = "recent"
    /\ PlaylistKeeps
    /\ \E code \in ReadStatus, items \in RecentLists :
        LET recent == IF code = 200 THEN TracksOf(items) ELSE <<>>
            l == [loc EXCEPT !.recent_tracks = recent,
                             !.seen_track_ids = Ids(loc.top_tracks) \cup Ids(recent)]
        IN  /\ Issue("/v1/me/player/recently-played", code)
            /\ IF l.related_artist_ids # <<>>
               THEN loc' = l /\ status' = status /\ pc' = "artist_tracks"
               ELSE Selected(l)

\* lines 203-212: one round of the loop, for the first related artist not
\* asked for yet; lines 214-231 after the last
pl_artist_tracks ==
    /\ pc = "artist_tracks"
    /\ PlaylistKeeps
    /\ \E code \in ReadStatus, tracks \in ArtistTrackLists :
        LET k == Asked("/v1/artists/top-tracks") + 1
            rid == loc.related_artist_ids[k]
            l == [loc EXCEPT !.candidate_tracks =
                                 IF code = 200
                                 THEN @ \o NotSeen(tracks, loc.seen_track_ids)
                                 ELSE @]
        IN  /\ IssueFor("/v1/artists/top-tracks", rid, code)
            /\ IF k < Len(loc.related_artist_ids)
               THEN loc' = l /\ status' = status /\ pc' = "artist_tracks"
               ELSE Selected(l)

\* slip: the status of the creation call is not looked at
pl_create_unchecked ==
    /\ pc = "create"
    /\ PlaylistKeeps
    /\ loc' = loc
    /\ \E code \in WriteStatus :
        /\ Issue("/v1/users/playlists", code)
        /\ status' = status
        /\ pc' = "add"

\* lines 233-247
pl_create ==
    /\ pc = "create"
    /\ PlaylistKeeps
    /\ \E code \in WriteStatus :
        /\ Issue("/v1/users/playlists", code)
        /\ IF code # 201
           THEN Return(loc, "error", code)
           ELSE loc' = loc /\ status' = status /\ pc' = "add"

\* lines 249-258
pl_add ==
    /\ pc = "add"
    /\ PlaylistKeeps
    /\ \E code \in WriteStatus :
        /\ calls' = Append(calls, [Answered(Call("/v1/playlists/tracks", "bearer", Bearer),
                                             code)
                                   EXCEPT !.uris = loc.uris])
        /\ IF code # 201
           THEN Return(loc, "error", code)
           ELSE Return(loc, "message", 200)

create_playlist ==
    \/ pl_profile
    \/ pl_top_artists
    \/ pl_related
    \/ pl_top_tracks
    \/ pl_recent
    \/ pl_artist_tracks
    \/ pl_create
    \/ pl_add

\* a /playlist request arrives at a session that is empty or logged in
PlaylistSessions ==
    {EmptyDict, [access_token |-> 11, expires_at |-> 5, refresh_token |-> 21]}

InitPlaylist ==
    /\ lapsed = "no"
    /\ session \in PlaylistSessions
    /\ now = 2
    /\ op = "create_playlist"
    /\ status = None
    /\ called = FALSE
    /\ ret = None
    /\ calls = <<>>
    /\ pre = session
    /\ preNow = now
    /\ resp = NoResponse
    /\ InitPlaylistIdle

SpecPlaylist == InitPlaylist /\ [][create_playlist]_vars

(***************************************************************************)
(* Two /me requests of one session, lines 125-133, under Session(app) with *)
(* SESSION_TYPE filesystem (lines 13-14): the session a handler works on   *)
(* is a dict loaded from the stored record when the request starts, and    *)
(* the whole dict is written over the stored record when the response is   *)
(* finalised (an emptied session deletes the record).  After a KeyError    *)
(* the session is written back or not, as in /callback.                    *)
(***************************************************************************)
RaceKeeps ==
    UNCHANGED <<op, status, called, ret, calls, pre, preNow, resp, pc, loc, lapsed>>

\* the record in the store after a request wrote its session back
SaveSession(copy) == copy

\* how many requests have written back
Written == Cardinality({i \in Requests : req[i].wrote > 0})

\* the request starts: its session is a copy of the stored record
rq_open(i) ==
    /\ req[i].pc = "idle"
    /\ req' = [req EXCEPT ![i] = [@ EXCEPT !.pc = "open", !.loaded = session,
                                            !.copy = session]]
    /\ UNCHANGED <<session, now>>
    /\ RaceKeeps

\* line 127: get_access_token on the request's own session
rq_token(i) ==
    /\ req[i].pc = "open"
    /\ \E r \in IF Asks(req[i].copy, now) THEN TokenResponses ELSE {NoResponse} :
        LET g == get_access_token(req[i].copy, now, r)
        IN  req' = [req EXCEPT ![i] = [@ EXCEPT !.pc = "ran", !.copy = g.session,
                                                !.t = now, !.resp = r, !.ret = g.ret,
                                                !.raised = g.raised]]
    /\ UNCHANGED <<session, now>>
    /\ RaceKeeps

\* lines 128-133 and the end of the request: the response, and the session
\* written back
rq_save(i) ==
    /\ req[i].pc = "ran"
    /\ \E saved \in IF req[i].raised THEN BOOLEAN ELSE {TRUE} :
        /\ session' = IF saved THEN SaveSession(req[i].copy) ELSE session
        /\ req' = [req EXCEPT ![i] =
                       [@ EXCEPT !.pc = "done",
                                 !.status = IF req[i].raised THEN 500
                                            ELSE IF req[i].ret = None THEN 401 ELSE 200,
                                 !.wrote = IF saved THEN Written + 1 ELSE 0]]
    /\ now' = now
    /\ RaceKeeps

RaceStores == {[access_token |-> 11, expires_at |-> 1, refresh_token |-> 21]}

InitRace ==
    /\ lapsed = "no"
    /\ session \in RaceStores
    /\ now = 2
    /\ op = "me"
    /\ status = None
    /\ called = FALSE
    /\ ret = None
    /\ calls = <<>>
    /\ pre = session
    /\ preNow = now
    /\ resp = NoResponse
    /\ InitPlaylistIdle

NextRace ==
    \/ Tick
    \/ \E i \in Requests : rq_open(i)
    \/ \E i \in Requests : rq_token(i)
    \/ \E i \in Requests : rq_save(i)

SpecRace == InitRace /\ [][NextRace]_vars

(***************************************************************************)
(* The claims.  In Spec they speak of the last request served: pre and     *)
(* preNow are the session and the clock it found, resp what the token      *)
(* endpoint answered, session what it left behind.                         *)
(***************************************************************************)
TokenFields == {"access_token", "refresh_token", "expires_at"}

HeldToken == called /\ Has(pre, "access_token")
PreCurrent == Has(pre, "expires_at") /\ preNow <= pre["expires_at"]
PreStale == Has(pre, "expires_at") /\ pre["expires_at"] < preNow
TokenCalls == {k \in 1..Len(calls) : calls[k].endpoint = "token"}
CallsTo(endpoint) == {k \in 1..Len(calls) : calls[k].endpoint = endpoint}

\* C1: a session that holds an access token and has not expired (expiresAt
\* not earlier than now): get_access_token calls the token endpoint zero
\* times, returns the stored access token and leaves the session as it was.
C1_FastPath ==
    (HeldToken /\ PreCurrent) =>
        /\ TokenCalls = {}
        /\ ret = pre["access_token"]
        /\ session = pre

\* the fast path taken in the last second of the token's life
C1_Witness ==
    /\ HeldToken
    /\ Has(pre, "refresh_token")
    /\ Has(pre, "expires_at") /\ pre["expires_at"] = preNow
    /\ ret = pre["access_token"]
    /\ status = 200

\* C2: every upstream API call of every endpoint carries a bearer token
\* that get_access_token returned in that same request.
C2_BearerFromGetValidToken ==
    \A k \in 1..Len(calls) :
        calls[k].grant = "bearer" => (called /\ ret # None /\ calls[k].cred = ret)

\* the last request found an expired access token and a refresh token
RefreshAsked == HeldToken /\ PreStale /\ Has(pre, "refresh_token")

\* what a successful refresh leaves behind; now is the clock of the request
RefreshStored ==
    /\ ret = resp.json["access_token"]
    /\ Has(session, "access_token") /\ session["access_token"] = resp.json["access_token"]
    /\ Has(session, "expires_at")
    /\ session["expires_at"] =
         preNow + (IF Has(resp.json, "expires_in") THEN resp.json["expires_in"] ELSE 3600)
    /\ ~Has(resp.json, "refresh_token") =>
         (Has(session, "refresh_token") /\ session["refresh_token"] = pre["refresh_token"])
    /\ status = 200

C4_RotatedRefreshTokenStored ==
    (RefreshAsked /\ resp.status_code = 200 /\ Has(resp.json, "access_token")
        /\ Has(resp.json, "refresh_token"))
        => (Has(session, "refresh_token")
            /\ session["refresh_token"] = resp.json["refresh_token"])

\* C5: expired session with a refresh token, and the refresh fails (non-2xx
\* status, or a body without access token): the caller gets 401
\* (Unauthenticated) and the session holds none of the three token fields.
C5_FailedRefreshClears ==
    (RefreshAsked /\ (~Is2xx(resp.status_code) \/ ~Has(resp.json, "access_token")))
        => /\ ret = None
           /\ status = 401
           /\ DOMAIN session \cap TokenFields = {}

\* C6: access token, expiresAt in the past, no refresh token:
\* get_access_token returns None (Unauthenticated), removes access token
\* and expiresAt, and calls the token endpoint not at all.
C6_StaleWithoutRefresh ==
    (HeldToken /\ PreStale /\ ~Has(pre, "refresh_token")) =>
        /\ ret = None
        /\ status = 401
        /\ ~Has(session, "access_token")
        /\ ~Has(session, "expires_at")
        /\ calls = <<>>

C6_Witness ==
    /\ HeldToken /\ PreStale /\ ~Has(pre, "refresh_token")
    /\ status = 401
    /\ session = EmptyDict

\* C7: a failed authorization-code exchange (non-2xx token answer, or a
\* body without access token) answers ExchangeFailed (400) and leaves the
\* session as it was.
C7_FailedExchangeWritesNothing ==
    (op = "callback" /\ calls # <<>>
        /\ (~Is2xx(resp.status_code) \/ ~Has(resp.json, "access_token")))
        => (status = 400 /\ session = pre)

\* the profile fetch, the playlist creation and the add-tracks call
Aborting == {"/v1/me", "/v1/users/playlists", "/v1/playlists/tracks"}

\* C8: in /playlist a failed (non-2xx) profile fetch, playlist creation or
\* add-tracks call is the last upstream call of the request, and the
\* request ends there with that call's status.
C8_AbortOnFailure ==
    \A k \in 1..Len(calls) :
        (calls[k].endpoint \in Aborting /\ ~Is2xx(calls[k].status_code)) =>
            /\ k = Len(calls)
            /\ pc = "done"
            /\ status = calls[k].status_code

\* playlist creation answered 403: the request ended with 403, nothing added
C8_Witness ==
    /\ pc = "done"
    /\ calls # <<>>
    /\ calls[Len(calls)].endpoint = "/v1/users/playlists"
    /\ calls[Len(calls)].status_code = 403
    /\ status = 403
    /\ CallsTo("/v1/playlists/tracks") = {}

\* the request is past line 217: all reads are done, the candidates chosen
AfterSelection ==
    /\ pc \in {"create", "add", "done"}
    /\ CallsTo("/v1/me/player/recently-played") # {}

\* C9: when the artist expansion yields no candidate, the candidates are
\* the top tracks if there are any, else the recently played tracks if
\* there are any, else the answer is 400 and neither the creation call nor
\* the add-tracks call is made.
C9_Fallback ==
    (AfterSelection /\ loc.expansion = <<>>) =>
        /\ loc.top_tracks # <<>> => loc.candidate_tracks = loc.top_tracks
        /\ (loc.top_tracks = <<>> /\ loc.recent_tracks # <<>>)
              => loc.candidate_tracks = loc.recent_tracks
        /\ (loc.top_tracks = <<>> /\ loc.recent_tracks = <<>>)
              => /\ status = 400
                 /\ pc = "done"
                 /\ CallsTo("/v1/users/playlists") = {}
                 /\ CallsTo("/v1/playlists/tracks") = {}

\* related artists were asked and all their tracks were known already; no
\* top tracks, so the recently played tracks are the candidates
C9_Witness ==
    /\ AfterSelection
    /\ \E k \in CallsTo("/v1/artists/top-tracks") : calls[k].status_code = 200
    /\ loc.expansion = <<>>
    /\ loc.top_tracks = <<>>
    /\ loc.recent_tracks # <<>>
    /\ loc.candidate_tracks = loc.recent_tracks
    /\ CallsTo("/v1/playlists/tracks") # {}

\* the first occurrence of each id, in order: the head, then the first
\* occurrences among the later tracks of other ids
RECURSIVE FirstSeen(_)
FirstSeen(tracks) ==
    IF tracks = <<>> THEN <<>>
    ELSE <<Head(tracks)>>
         \o FirstSeen(SelectSeq(Tail(tracks), LAMBDA t : t.id # Head(tracks).id))

\* C10: there is one add-tracks call at most, and the URIs it sends are
\* those of the first occurrence of each id among the candidates, in
\* candidate order, cut to the first 30: at most 30, no id twice.
C10_UrisSent ==
    /\ Cardinality(CallsTo("/v1/playlists/tracks")) <= 1
    /\ \A k \in CallsTo("/v1/playlists/tracks") :
        LET sent == calls[k].uris
            first == FirstSeen(loc.candidate_tracks)
            n == IF Len(first) < 30 THEN Len(first) ELSE 30
        IN  /\ Len(sent) <= 30
            /\ Len(sent) = n
            /\ \A i \in 1..n : sent[i] = first[i].uri
            /\ \A i, j \in 1..Len(sent) : i # j => sent[i] # sent[j]

\* more than 30 distinct candidates, with repeats among them
C10_Witness ==
    /\ CallsTo("/v1/playlists/tracks") # {}
    /\ Cardinality(Ids(loc.candidate_tracks)) > 30
    /\ Len(loc.candidate_tracks) > Cardinality(Ids(loc.candidate_tracks))
    /\ Len(loc.uris) = 30
    /\ status = 200

\* the ids of a track sequence, in order
IdsInOrder(tracks) == [k \in 1..Len(tracks) |-> tracks[k].id]

\* top tracks with ids 1,2,3, recently played with ids 2,4, nothing from
\* the artist expansion
Scenario11 ==
    /\ AfterSelection
    /\ loc.expansion = <<>>
    /\ IdsInOrder(loc.top_tracks) = <<1, 2, 3>>
    /\ IdsInOrder(loc.recent_tracks) = <<2, 4>>

\* C11 as amended: top tracks [A,B,C] (ids 1,2,3), recently played [B,D]
\* (ids 2,4), no artist-expansion candidates: the deduplicated candidate
\* order is [A,B,C]; D, which is only among the recently played, is left out.
C11_TopTracksOnly == Scenario11 => IdsInOrder(loc.unique) = <<1, 2, 3>>

\* C11 as stated: in that scenario the deduplicated candidate order is
\* [A,B,C,D].
C11_MergedOrder == Scenario11 => IdsInOrder(loc.unique) = <<1, 2, 3, 4>>

\* the scenario, played to the end: the three top tracks are added
C11_Witness ==
    /\ Scenario11
    /\ pc = "done"
    /\ status = 200
    /\ loc.uris = <<UriBase + 1, UriBase + 2, UriBase + 3>>

\* the reads of /playlist other than the profile fetch
Reads ==
    {"/v1/me/top/artists", "/v1/artists/related-artists", "/v1/me/top/tracks",
     "/v1/me/player/recently-played", "/v1/artists/top-tracks"}

\* C12: in /playlist a non-2xx answer to a read other than the profile
\* fetch ends the request with that status (UpstreamError); the request
\* never goes on with an empty result in its place.
C12_ReadFailureSurfaced ==
    \A k \in 1..Len(calls) :
        (calls[k].endpoint \in Reads /\ ~Is2xx(calls[k].status_code)) =>
            /\ k = Len(calls)
            /\ pc = "done"
            /\ status = calls[k].status_code

\* C14: the dedup step applied to its own output gives that output again,
\* for every candidate sequence of at most 30 distinct ids.
C14_DedupIdempotent ==
    (AfterSelection /\ Cardinality(Ids(loc.candidate_tracks)) <= MaxTracks) =>
        /\ loc.unique = Unique(loc.candidate_tracks)
        /\ Unique(loc.unique) = loc.unique

\* candidates with repeats: the dedup step removed some, and removes no
\* more the second time
C14_Witness ==
    /\ AfterSelection
    /\ Cardinality(Ids(loc.candidate_tracks)) <= MaxTracks
    /\ Len(loc.candidate_tracks) > Cardinality(Ids(loc.candidate_tracks))
    /\ Len(loc.unique) > 1
    /\ Len(loc.unique) < Len(loc.candidate_tracks)

\* C16: one invocation of get_access_token calls the token endpoint once
\* at most, whatever the session and the answer; a rejected refresh is not
\* tried again.
C16_OneTokenCall == called => Cardinality(TokenCalls) <= 1

\* a refresh was rejected, and that was the only call
C16_Witness ==
    /\ RefreshAsked
    /\ resp.status_code = 400
    /\ ret = None
    /\ Cardinality(TokenCalls) = 1
    /\ Len(calls) = 1

\* C18: when the artist expansion supplies the candidates, no candidate
\* and no URI added is a track whose id is among the user's top tracks or
\* recently played tracks.
C18_ExpansionExcludesOwn ==
    (AfterSelection /\ loc.expansion # <<>>) =>
        LET own == Ids(loc.top_tracks) \cup Ids(loc.recent_tracks)
        IN  /\ loc.candidate_tracks = loc.expansion
            /\ Ids(loc.candidate_tracks) \cap own = {}
            /\ \A k \in 1..Len(loc.uris) : \A id \in own : loc.uris[k] # Track(id).uri

\* a related artist's tracks 1..10 came in and the user's own 2 and 4 were
\* taken out
C18_Witness ==
    /\ AfterSelection
    /\ {2, 4} \subseteq Ids(loc.recent_tracks)
    /\ {1, 5} \subseteq Ids(loc.expansion)
    /\ CallsTo("/v1/playlists/tracks") # {}

\* the artist top-tracks calls made so far, and the artists they were for
ArtistTrackCalls == CallsTo("/v1/artists/top-tracks")

\* C17: at most 2 related artists are taken per top artist and their ids
\* are deduplicated before use: no related artist's top tracks are fetched
\* twice in one request, and the artist top-tracks calls number at most
\* 2 times the top artists.
C17_ExpansionCalls ==
    /\ \A j, k \in ArtistTrackCalls : calls[j].id = calls[k].id => j = k
    /\ Cardinality(ArtistTrackCalls) <= RelatedPerArtist * Len(loc.top_artist_ids)
    /\ pc \in {"top_tracks", "recent", "artist_tracks", "create", "add", "done"} =>
           /\ Len(loc.related_artist_ids) <= RelatedPerArtist * Len(loc.top_artist_ids)
           /\ Cardinality(ArtistTrackCalls) <= Len(loc.related_artist_ids)

\* two top artists whose related artists overlap: three distinct related
\* artists, each fetched once
C17_Witness ==
    /\ pc = "done"
    /\ Len(loc.top_artist_ids) = 2
    /\ Cardinality(CallsTo("/v1/artists/related-artists")) = 2
    /\ \A k \in CallsTo("/v1/artists/related-artists") : calls[k].status_code = 200
    /\ Len(loc.related_artist_ids) = 3
    /\ Cardinality(ArtistTrackCalls) = 3

\* the two writes of /playlist
Writes == {"/v1/users/playlists", "/v1/playlists/tracks"}

\* C19: the playlist-creation and add-tracks steps fail exactly on a
\* non-2xx status: after a 2xx answer to either the request does not end
\* in an error at that step, and no error result carries a 2xx status.
C19_WriteFailsOnNon2xx ==
    /\ \A k \in 1..Len(calls) :
           (calls[k].endpoint \in Writes /\ Is2xx(calls[k].status_code)) =>
               ~(k = Len(calls) /\ pc = "done" /\ loc.body = "error")
    /\ \A k \in 1..Len(calls) :
           (calls[k].endpoint \in Writes /\ ~Is2xx(calls[k].status_code)) =>
               (k = Len(calls) /\ pc = "done" /\ loc.body = "error")
    /\ (pc = "done" /\ loc.body = "error") => ~Is2xx(status)

\* C15: a failed refresh is terminal: once get_access_token has returned
\* None because the refresh was rejected, every later /me (get_access_token)
\* and every later /refresh-token request is answered unauthenticated and
\* calls the token endpoint no more, until a code exchange succeeds (2xx
\* answer with an access token).
C15_FailedRefreshTerminal ==
    (lapsed = "past" /\ op \in {"me", "refresh_token"}) =>
        /\ status = 401
        /\ TokenCalls = {}
        /\ (called => ret = None)

\* C20: after any sequence of /callback, get_access_token and
\* /refresh-token requests from an empty session: expires_at is held if
\* and only if access_token is, and refresh_token only if access_token is.
C20_FieldsTogether ==
    /\ Has(session, "expires_at") <=> Has(session, "access_token")
    /\ Has(session, "refresh_token") => Has(session, "access_token")

\* both requests of SpecRace are over, and both started from the same
\* stored record: an access token that had expired when they looked, and a
\* refresh token
RaceOver ==
    /\ \A i \in Requests : req[i].pc = "done"
    /\ req[1].loaded = req[2].loaded
    /\ \A i \in Requests :
           /\ Has(req[i].loaded, "access_token")
           /\ Has(req[i].loaded, "refresh_token")
           /\ IsExpired(req[i].loaded, req[i].t)

\* the stored record holds the access token of request i's refresh answer
\* and the expires_at computed from that same answer
FromRefreshOf(i) ==
    /\ Has(req[i].resp.json, "access_token")
    /\ Has(session, "access_token")
    /\ Has(session, "expires_at")
    /\ session["access_token"] = req[i].resp.json["access_token"]
    /\ session["expires_at"] = req[i].t + Get(req[i].resp.json, "expires_in", DefaultExpiresIn)

\* C13: two requests of one session start from the same stored record
\* (expired access token, refresh token) and run get_access_token
\* concurrently on their own copies: when both are over the stored record
\* is the one the last writer wrote, and it is either cleared of all token
\* fields or holds the access token and the expires_at of one and the same
\* refresh answer.
C13_LastWriterWhole ==
    RaceOver =>
        /\ \A i \in Requests :
               (\A j \in Requests : req[j].wrote <= req[i].wrote) =>
                   session = req[i].copy
        /\ \/ DOMAIN session \cap TokenFields = {}
           \/ \E i \in Requests : FromRefreshOf(i)

====
